---- MODULE Spec2Model ----
(***************************************************************************)
(* Model of the document search of app/services/mongodb_service.py         *)
(* (MongoDBService.search_documents, search_documents_semantic) and of     *)
(* its callers in app/mcp_server.py and app/main.py.                       *)
(*                                                                         *)
(* Strings are sequences of one-character strings.  Scores are kept in     *)
(* tenths (15 is 150, 0.3 is 3), so that the arithmetic of the code is     *)
(* exact integer arithmetic.                                               *)
(***************************************************************************)
EXTENDS Integers, Sequences, FiniteSets, TLC

(***************************************************************************)
(* Bounds of the model.                                                    *)
(***************************************************************************)
MaxStore == 3        \* documents held by the collection at one time
MaxLimit == 5        \* largest limit a caller passes
MaxNegLimit == 1     \* a caller passes limits down to minus this
MaxClock == 31       \* the clock runs from day 0 to this day
TickDays == 31       \* days by which one step of the clock advances it
NumTasks == 2        \* store operations that run concurrently
MaxClients == 3      \* client handles that connect() creates in one run

(***************************************************************************)
(* Characters and words.                                                   *)
(***************************************************************************)
Sp == <<" ">>
W_caching == <<"c","a","c","h","i","n","g">>
W_Caching == <<"C","a","c","h","i","n","g">>
W_cache == <<"c","a","c","h","e">>
W_precaching == <<"p","r","e">> \o W_caching
W_what == <<"w","h","a","t">>
W_What == <<"W","h","a","t">>
W_is == <<"i","s">>
W_search == <<"s","e","a","r","c","h">>
W_api == <<"a","p","i">>
W_API == <<"A","P","I">>
W_tool == <<"t","o","o","l">>
W_Tool == <<"T","o","o","l">>
W_function == <<"f","u","n","c","t","i","o","n">>
W_using == <<"u","s","i","n","g">>
W_definition == <<"d","e","f","i","n","i","t","i","o","n">>
W_overview == <<"o","v","e","r","v","i","e","w">>
W_introduction == <<"i","n","t","r","o","d","u","c","t","i","o","n">>
W_about == <<"a","b","o","u","t">>
W_reference == <<"r","e","f","e","r","e","n","c","e">>
W_improves == <<"i","m","p","r","o","v","e","s">>
W_speed == <<"s","p","e","e","d">>
W_guide == <<"g","u","i","d","e">>
W_ing == <<"i","n","g">>
W_e == <<"e">>

UpperCase == {"A", "C", "I", "P", "T", "W"}
LowerCase == {"a","b","c","d","e","f","g","h","i","l","m","n","o","p","r","s","t","u","v","w","x"}

\* str.lower() on one character.
LowerChar(c) ==
    CASE c = "A" -> "a" [] c = "C" -> "c" [] c = "I" -> "i"
      [] c = "P" -> "p" [] c = "T" -> "t" [] c = "W" -> "w"
      [] OTHER -> c

\* str.lower(), and the case folding of the regex option "i".
Lower(s) == [i \in 1..Len(s) |-> LowerChar(s[i])]

IsSpace(c) == c = " "
IsWordChar(c) == c \in UpperCase \cup LowerCase

\* p occurs in s starting at index i (1-based).
MatchAt(s, p, i) ==
    /\ i >= 1
    /\ i + Len(p) - 1 <= Len(s)
    /\ \A k \in 1..Len(p) : s[i + k - 1] = p[k]

\* Python's "p in s"; an unanchored literal regex.
Contains(s, p) == \E i \in 1..(Len(s) - Len(p) + 1) : MatchAt(s, p, i)

\* The regex anchor ^ followed by a literal.
StartsWith(s, p) == MatchAt(s, p, 1)

\* The regex \b at the position after the first k characters of s.
WordBoundary(s, k) ==
    LET before == k >= 1 /\ k <= Len(s) /\ IsWordChar(s[k])
        after  == k + 1 <= Len(s) /\ IsWordChar(s[k + 1])
    IN  before # after


\* The regex suffix $ after a literal.
EndsWith(s, p) == MatchAt(s, p, Len(s) - Len(p) + 1)

\* The last index of the whitespace-free run of s that starts at index i.
WordEnd(s, i) ==
    CHOOSE j \in i..Len(s) :
        /\ j = Len(s) \/ IsSpace(s[j + 1])
        /\ \A k \in i..(j - 1) : ~IsSpace(s[k + 1])

\* The indices of s at which a whitespace-free run starts.
WordStarts(s) ==
    {i \in 1..Len(s) : ~IsSpace(s[i]) /\ (i = 1 \/ IsSpace(s[i - 1]))}

\* The words of s, as a set.
Words(s) == {SubSeq(s, i, WordEnd(s, i)) : i \in WordStarts(s)}

\* str.split(): the words of s in order.
RECURSIVE SplitFrom(_, _)
SplitFrom(s, i) ==
    IF i > Len(s) THEN <<>>
    ELSE IF IsSpace(s[i]) THEN SplitFrom(s, i + 1)
    ELSE <<SubSeq(s, i, WordEnd(s, i))>> \o SplitFrom(s, WordEnd(s, i) + 1)

Split(s) == SplitFrom(s, 1)

\* The elements of a sequence, as a set.
Range(f) == {f[i] : i \in DOMAIN f}

(***************************************************************************)
(* The stored documents.  A stored document has an identity, a content, a  *)
(* metadata mapping with an optional title, and timestamps; text_score is  *)
(* the relevance the text index of the store gives the document for a      *)
(* query it matches.  The content of a document is its text followed by    *)
(* padding further characters "x"; the padding is kept as its length.      *)
(***************************************************************************)
ShortContentLimit == 1000

Catalogue ==
    <<
      \* 1: "What is Caching" / "caching search"
      [metadata |-> [title |-> W_What \o Sp \o W_is \o Sp \o W_Caching, source |-> "github"],
       content |-> W_caching \o Sp \o W_search,
       padding |-> 0,
       text_score |-> 10],
      \* 2: "Caching API Tool" / "using caching api search caching tool"
      [metadata |-> [title |-> W_Caching \o Sp \o W_API \o Sp \o W_Tool, source |-> "web"],
       content |-> W_using \o Sp \o W_caching \o Sp \o W_api \o Sp \o W_search
                   \o Sp \o W_caching \o Sp \o W_tool,
       padding |-> 0,
       text_score |-> 10],
      \* 3: no title / "cache overview definition"
      [metadata |-> [source |-> "github"],
       content |-> W_cache \o Sp \o W_overview \o Sp \o W_definition,
       padding |-> 0,
       text_score |-> 146],
      \* 4: no title / "caching improves speed"
      [metadata |-> [source |-> "github"],
       content |-> W_caching \o Sp \o W_improves \o Sp \o W_speed,
       padding |-> 0,
       text_score |-> 1],
      \* 5: no title / "precaching guide"
      [metadata |-> [source |-> "web"],
       content |-> W_precaching \o Sp \o W_guide,
       padding |-> 0,
       text_score |-> 0],
      \* 6: no title / "cache xxx..." of more than ShortContentLimit characters
      [metadata |-> [source |-> "web"],
       content |-> W_cache \o Sp,
       padding |-> ShortContentLimit,
       text_score |-> 10],
      \* 7: the same content and metadata as 6
      [metadata |-> [source |-> "web"],
       content |-> W_cache \o Sp,
       padding |-> ShortContentLimit,
       text_score |-> 10],
      \* 8: no title / "precaching api"
      [metadata |-> [source |-> "web"],
       content |-> W_precaching \o Sp \o W_api,
       padding |-> 0,
       text_score |-> 0],
      \* 9: no title / "precaching overview"
      [metadata |-> [source |-> "web"],
       content |-> W_precaching \o Sp \o W_overview,
       padding |-> 0,
       text_score |-> 0],
      \* 10: no title / "cache ", the content of 6 without its padding
      [metadata |-> [source |-> "web"],
       content |-> W_cache \o Sp,
       padding |-> 0,
       text_score |-> 10],
      \* 11: "API Tool" / the content of 2
      [metadata |-> [title |-> W_API \o Sp \o W_Tool, source |-> "web"],
       content |-> W_using \o Sp \o W_caching \o Sp \o W_api \o Sp \o W_search
                   \o Sp \o W_caching \o Sp \o W_tool,
       padding |-> 0,
       text_score |-> 10]
    >>

DocIds == DOMAIN Catalogue

\* The documents that callers insert one by one; the others are held by the
\* collections that the scoring of pairs of documents starts from.
Corpus == {1, 2, 3, 4, 5, 6, 7}

\* The documents that callers insert while an observer compares calls: one
\* for the conceptual tier, one for the full-text tier, one for both and
\* one for the keyword fallback.
ObservedCorpus == {1, 2, 4, 5}

HasTitle(d) == "title" \in DOMAIN Catalogue[d].metadata

\* doc.get('metadata', {}).get('title', '')
TitleOf(d) == IF HasTitle(d) THEN Catalogue[d].metadata.title ELSE <<>>

\* The content as the patterns of the code see it.  No pattern holds the
\* padding character, so a run of it matches as a single one does.
ContentOf(d) ==
    Catalogue[d].content \o (IF Catalogue[d].padding > 0 THEN <<"x">> ELSE <<>>)

\* len(content), $strLenCP of the content
ContentLen(d) == Len(Catalogue[d].content) + Catalogue[d].padding

(***************************************************************************)
(* The inputs of a call.                                                   *)
(***************************************************************************)
Q_caching == W_caching
Q_empty == <<>>
Queries == {Q_caching, Q_empty}

Limits == (0 - MaxNegLimit)..MaxLimit

NoFilter == <<>>
GithubFilter == [p \in {"metadata.source"} |-> "github"]
Filters == {NoFilter, GithubFilter}

\* A filter of a POST /search request whose key is an operator of the query
\* language: {"$or": [{"metadata.source": "web"}]}.
OrWebFilter == [p \in {"$or"} |-> <<[q \in {"metadata.source"} |-> "web"]>>]
OperatorFilters == {OrWebFilter}

\* The value a stored document has at a dotted field path.
FieldValue(d, path) ==
    CASE path = "metadata.source" -> Catalogue[d].metadata.source
      [] OTHER -> "missing"

\* One clause of a $or: its field paths all have the values it names.
ClauseMatches(d, clause) ==
    \A path \in DOMAIN clause : FieldValue(d, path) = clause[path]

\* The entries of filter_dict, as the store matches them: all must hold, a
\* field path by its value and a $or by one of its clauses.
FilterMatches(d, filter_dict) ==
    \A key \in DOMAIN filter_dict :
        IF key = "$or"
        THEN \E i \in DOMAIN filter_dict[key] : ClauseMatches(d, filter_dict[key][i])
        ELSE FieldValue(d, key) = filter_dict[key]

\* A query dictionary with the one key tier_key, after update(filter_dict),
\* as the store matches it: an entry of filter_dict under tier_key takes
\* the place of the tier's own entry, every other entry is added to it.
UpdatedMatches(tier_key, tier_matches, d, filter_dict) ==
    /\ tier_key \in DOMAIN filter_dict \/ tier_matches
    /\ FilterMatches(d, filter_dict)


(***************************************************************************)
(* The predicates of the store queries.                                    *)
(***************************************************************************)
\* The alternation (search|api|tool|function) of the regexes.
TechnicalSuffixes == {W_search, W_api, W_tool, W_function}

\* The lookahead \s+(search|api|tool|function) at the position after the
\* first k characters of s, under the option "i".
TechnicalFollows(s, k) ==
    \E j \in 1..(Len(s) - k) :
        /\ \A i \in 1..j : IsSpace(s[k + i])
        /\ \E w \in TechnicalSuffixes : MatchAt(Lower(s), w, k + j + 1)

\* content matches \b{query}\b(?!\s+(search|api|tool|function)), option "i".
ConceptualContentMatch(content, query) ==
    \E k \in 0..(Len(content) - Len(query)) :
        /\ WordBoundary(content, k)
        /\ MatchAt(Lower(content), Lower(query), k + 1)
        /\ WordBoundary(content, k + Len(query))
        /\ ~TechnicalFollows(content, k + Len(query))

\* The $or of conceptual_filter.
ConceptualMatch(d, query) ==
    \/ HasTitle(d) /\ Lower(TitleOf(d)) = Lower(query)
    \/ HasTitle(d) /\ StartsWith(Lower(TitleOf(d)), W_what \o Sp \o W_is \o Sp \o Lower(query))
    \/ ConceptualContentMatch(ContentOf(d), query)

\* The stem the text index keeps of a word: a trailing "ing" or "e" dropped.
Stem(w) ==
    IF Len(w) > Len(W_ing) /\ EndsWith(w, W_ing) THEN SubSeq(w, 1, Len(w) - Len(W_ing))
    ELSE IF Len(w) > Len(W_e) /\ EndsWith(w, W_e) THEN SubSeq(w, 1, Len(w) - Len(W_e))
    ELSE w

\* {"$text": {"$search": query}} over the text index on content and title:
\* some term of the query has the stem of some word of the document.
TextSearchMatch(d, query) ==
    LET terms == {Stem(w) : w \in Words(Lower(query))}
        words == {Stem(w) : w \in Words(Lower(ContentOf(d))) \cup Words(Lower(TitleOf(d)))}
    IN  terms \cap words # {}

\* {"$meta": "textScore"}: positive exactly on the documents the text
\* search matches.
TextScore(d, query) == IF TextSearchMatch(d, query) THEN Catalogue[d].text_score ELSE 0

\* keywords = [word for word in query_lower.split() if len(word) > 2]
KeywordMinLen == 2

Keywords(query_lower) == SelectSeq(Split(query_lower), LAMBDA w : Len(w) > KeywordMinLen)

\* The $or of keyword_filter: some keyword occurs in the content, option "i".
KeywordMatch(d, keywords) ==
    \E i \in DOMAIN keywords : Contains(Lower(ContentOf(d)), Lower(keywords[i]))


(***************************************************************************)
(* The scores of the tiers of search_documents, in tenths.                 *)
(***************************************************************************)
Max(a, b) == IF a >= b THEN a ELSE b

\* The number of indices of a sequence of strings at which P holds.
RECURSIVE CountIn(_, _, _)
CountIn(phrases, P(_), i) ==
    IF i > Len(phrases) THEN 0
    ELSE (IF P(phrases[i]) THEN 1 ELSE 0) + CountIn(phrases, P, i + 1)

ConceptualBase == 150
ConceptualTitleBonus == 50

\* score = 15; score += 5 if the title holds the lower-cased query.
ConceptualScore(d, query_lower) ==
    ConceptualBase
    + (IF HasTitle(d) /\ Contains(Lower(TitleOf(d)), query_lower)
       THEN ConceptualTitleBonus ELSE 0)

technical_phrases(query_lower) ==
    << query_lower \o Sp \o W_search, query_lower \o Sp \o W_api,
       query_lower \o Sp \o W_tool, query_lower \o Sp \o W_function,
       W_search \o Sp \o query_lower, W_using \o Sp \o query_lower >>

conceptual_indicators ==
    << W_what \o Sp \o W_is, W_definition, W_overview, W_introduction, W_about >>

PenaltyStep == 3
BonusStep == 2
ScoreFloor == 1

\* The phrase is in content_lower or in title_lower.
InText(d, phrase) ==
    \/ Contains(Lower(ContentOf(d)), phrase)
    \/ Contains(Lower(TitleOf(d)), phrase)

\* The penalty counted once however many phrases occur.
penalty_Capped(d, query_lower) ==
    IF CountIn(technical_phrases(query_lower), LAMBDA ph : InText(d, ph), 1) > 0
    THEN PenaltyStep ELSE 0

penalty(d, query_lower) ==
    PenaltyStep * CountIn(technical_phrases(query_lower), LAMBDA ph : InText(d, ph), 1)

bonus(d) ==
    BonusStep * CountIn(conceptual_indicators, LAMBDA ph : InText(d, ph), 1)

\* The score without its floor.
final_score_NoFloor(d, query_lower, base_score) ==
    base_score - penalty(d, query_lower) + bonus(d)

\* final_score = max(0.1, base_score - penalty + bonus)
final_score(d, query_lower, base_score) ==
    Max(ScoreFloor, base_score - penalty(d, query_lower) + bonus(d))

FallbackScore == 3

(***************************************************************************)
(* The pipeline of search_documents_semantic.                              *)
(***************************************************************************)
HasDescription(d) == "description" \in DOMAIN Catalogue[d].metadata

\* The $or of match_stage.
SemanticMatch(d, query) ==
    \/ TextSearchMatch(d, query)
    \/ Contains(Lower(ContentOf(d)), Lower(query))
    \/ HasTitle(d) /\ Contains(Lower(TitleOf(d)), Lower(query))
    \/ HasDescription(d) /\ Contains(Lower(Catalogue[d].metadata.description), Lower(query))

SemanticIndicators == {W_what \o Sp \o W_is, W_definition, W_overview, W_introduction}

\* The conditions of the $cond terms of the $addFields stage that depend on
\* the document and the query only.
TitleRegexMatch(d, query) == HasTitle(d) /\ Contains(Lower(TitleOf(d)), Lower(query))

TitlePrefixMatch(d, query) ==
    HasTitle(d) /\ StartsWith(Lower(TitleOf(d)), W_what \o Sp \o W_is \o Sp \o Lower(query))

ShortContent(d) == ContentLen(d) < ShortContentLimit

TechnicalUsage(d, query) ==
    \E w \in TechnicalSuffixes : Contains(Lower(ContentOf(d)), Lower(query) \o Sp \o w)

ConceptualLanguage(d) ==
    \E ph \in SemanticIndicators : Contains(Lower(ContentOf(d)), ph)

(***************************************************************************)
(* What the store computes for each stored document and query: the         *)
(* predicates and scores above, tabulated.                                 *)
(***************************************************************************)
QuerySeq == <<Q_caching, Q_empty>>

QueryIndex(query) == CHOOSE i \in DOMAIN QuerySeq : QuerySeq[i] = query

FactsOf(d, query) ==
    [ conceptual |-> ConceptualMatch(d, query),
      text_score |-> TextScore(d, query),
      keyword |-> KeywordMatch(d, Keywords(Lower(query))),
      semantic |-> SemanticMatch(d, query),
      conceptual_score |-> ConceptualScore(d, Lower(query)),
      final_score |-> final_score(d, Lower(query), TextScore(d, query)),
      unclamped |-> TextScore(d, query) - penalty(d, Lower(query)) + bonus(d),
      title_regex |-> TitleRegexMatch(d, query),
      title_prefix |-> TitlePrefixMatch(d, query),
      short_content |-> ShortContent(d),
      technical_usage |-> TechnicalUsage(d, query),
      conceptual_language |-> ConceptualLanguage(d) ]

Facts ==
    {<<q, d, FactsOf(d, QuerySeq[q])>> : q \in DOMAIN QuerySeq, d \in DocIds}

Fact(d, query) == (CHOOSE t \in Facts : t[1] = QueryIndex(query) /\ t[2] = d)[3]

TitleMatchWeight == 50
TitlePrefixWeight == 80
ShortContentWeight == 20
RecencyWeight == 10
RecencyDays == 30
TechnicalUsageWeight == -20
ConceptualLanguageWeight == 30

\* The sum with the recency comparison turned around.
relevance_score_OldIsRecent(d, query, created_at, now) ==
      (IF Fact(d, query).text_score > 0 THEN Fact(d, query).text_score ELSE 0)
    + (IF Fact(d, query).title_regex THEN TitleMatchWeight ELSE 0)
    + (IF Fact(d, query).title_prefix THEN TitlePrefixWeight ELSE 0)
    + (IF Fact(d, query).short_content THEN ShortContentWeight ELSE 0)
    + (IF created_at < now - RecencyDays THEN RecencyWeight ELSE 0)
    + (IF Fact(d, query).technical_usage THEN TechnicalUsageWeight ELSE 0)
    + (IF Fact(d, query).conceptual_language THEN ConceptualLanguageWeight ELSE 0)

\* The sum with the technical-usage term added instead of subtracted.
relevance_score_PenaltyAdds(d, query, created_at, now) ==
      (IF Fact(d, query).text_score > 0 THEN Fact(d, query).text_score ELSE 0)
    + (IF Fact(d, query).title_regex THEN TitleMatchWeight ELSE 0)
    + (IF Fact(d, query).title_prefix THEN TitlePrefixWeight ELSE 0)
    + (IF Fact(d, query).short_content THEN ShortContentWeight ELSE 0)
    + (IF created_at > now - RecencyDays THEN RecencyWeight ELSE 0)
    - (IF Fact(d, query).technical_usage THEN TechnicalUsageWeight ELSE 0)
    + (IF Fact(d, query).conceptual_language THEN ConceptualLanguageWeight ELSE 0)

\* The $add of the $addFields stage, for a document created at created_at,
\* with $$NOW being now.
relevance_score(d, query, created_at, now) ==
      (IF Fact(d, query).text_score > 0 THEN Fact(d, query).text_score ELSE 0)
    + (IF Fact(d, query).title_regex THEN TitleMatchWeight ELSE 0)
    + (IF Fact(d, query).title_prefix THEN TitlePrefixWeight ELSE 0)
    + (IF Fact(d, query).short_content THEN ShortContentWeight ELSE 0)
    + (IF created_at > now - RecencyDays THEN RecencyWeight ELSE 0)
    + (IF Fact(d, query).technical_usage THEN TechnicalUsageWeight ELSE 0)
    + (IF Fact(d, query).conceptual_language THEN ConceptualLanguageWeight ELSE 0)

(***************************************************************************)
(* Documents in memory, cursors and sorting.                               *)
(***************************************************************************)
\* The fields of the pydantic model Document.  The content, the metadata
\* and updated_at of a document are those of the stored document with the
\* same id and are not copied into the state.
DocumentFields == {"id", "content", "metadata", "created_at", "updated_at"}

\* Document(**doc): the model keeps its declared fields and ignores every
\* other key of the dictionary.
Document(doc) == [k \in (DOMAIN doc) \cap DocumentFields |-> doc[k]]

\* getattr(x, name, default)
getattr(x, name, default) == IF name \in DOMAIN x THEN x[name] ELSE default

\* The dictionary built from a stored record, with its _search_score set.
ScoredDict(rec, score) ==
    [id |-> rec.id, created_at |-> rec.created_at, _search_score |-> score]

Abs(n) == IF n < 0 THEN -n ELSE n

Min(a, b) == IF a <= b THEN a ELSE b

\* cursor.limit(n): 0 is no limit, a negative n is a single batch of -n.
CursorLimit(recs, n) == IF n = 0 THEN recs ELSE SubSeq(recs, 1, Min(Abs(n), Len(recs)))

\* collection.find(predicate): the matching records in the order of the
\* collection.
Find(recs, P(_)) == SelectSeq(recs, P)

\* A stable sort by the strict order Before: the place of an element is
\* one more than the number of elements that precede it strictly or that
\* tie with it and come earlier in seq.
StableSort(seq, Before(_, _)) ==
    LET place(i) ==
            1 + Cardinality({j \in DOMAIN seq :
                    \/ Before(seq[j], seq[i])
                    \/ j < i /\ ~Before(seq[i], seq[j])})
    IN  [r \in DOMAIN seq |-> seq[CHOOSE i \in DOMAIN seq : place(i) = r]]

\* Python's seq[:n]
Slice(seq, n) ==
    IF n >= 0 THEN SubSeq(seq, 1, Min(n, Len(seq)))
    ELSE SubSeq(seq, 1, Max(0, Len(seq) + n))

Ids(docs) == {docs[i].id : i \in DOMAIN docs}


(***************************************************************************)
(* The state.                                                              *)
(*   store            the collection: records in their natural order       *)
(*   now              the clock, in days                                   *)
(*   client, collection, connected    the fields of MongoDBService         *)
(*   pc               the position of the call in flight                   *)
(*   call             the entry point and the arguments of the call        *)
(*   conceptual_docs, documents, remaining_limit                           *)
(*                    the local variables of search_documents              *)
(*   events           the queries the call sent to the store and the       *)
(*                    dictionaries it scored, in order                     *)
(*   result           what the method of the service returned or raised    *)
(*   response         what the entry point handed to its caller            *)
(*   last             the arguments and the documents of the latest call   *)
(*                    that returned since the collection last changed      *)
(*   tasks            the position of each concurrent store operation in   *)
(*                    is_connected and connect, and the client it pings    *)
(*   handles          which client the handles self.client, self.database  *)
(*                    and self.collection were made from (0 is None)       *)
(*   pinged           the clients that have answered a ping                *)
(***************************************************************************)
VARIABLES store, now, client, collection, connected, pc, call,
          conceptual_docs, documents, remaining_limit, events, result, response,
          last, tasks, handles, pinged

vars == <<store, now, client, collection, connected, pc, call,
          conceptual_docs, documents, remaining_limit, events, result, response,
          last, tasks, handles, pinged>>

conn == <<client, collection, connected>>
locals == <<conceptual_docs, documents, remaining_limit>>
race == <<tasks, handles, pinged>>

Tasks == 1..NumTasks

NoCall == [entry |-> "none", query |-> <<>>, limit |-> 0, filter_dict |-> NoFilter]
Pending == [status |-> "pending", documents |-> <<>>, error |-> "none"]
NoResponse == [kind |-> "none", items |-> <<>>]
NoLast == [query |-> <<>>, limit |-> 0, filter_dict |-> NoFilter, documents |-> <<>>,
           valid |-> FALSE]
NoHandles == [client |-> 0, database |-> 0, collection |-> 0]
Waiting == [pc |-> "idle", mine |-> 0]

\* The service as MongoDBService() leaves it, and no call in flight.
Constructed ==
    /\ client = "None"
    /\ collection = "None"
    /\ connected = FALSE
    /\ pc = "idle"
    /\ call = NoCall
    /\ conceptual_docs = <<>>
    /\ documents = <<>>
    /\ remaining_limit = 0
    /\ events = <<>>
    /\ result = Pending
    /\ response = NoResponse
    /\ last = NoLast
    /\ tasks = [t \in Tasks |-> Waiting]
    /\ handles = NoHandles
    /\ pinged = {}

Init ==
    /\ store = <<>>
    /\ now = 0
    /\ Constructed

(***************************************************************************)
(* The connection.                                                         *)
(***************************************************************************)
\* `if not await self.is_connected(): await self.connect()`, then the check
\* of self.collection: the fields of the service afterwards and the error
\* raised, if any.  ping_ok is the outcome of the ping of is_connected,
\* connect_ok that of the ping and the index creation of connect; failures
\* is the number of runs of connect() that raised.
EnsureConnected_Retry(ping_ok, connect_ok) ==
    LET is_connected == connected /\ client # "None" /\ ping_ok
    IN  IF is_connected
        THEN [client |-> client, collection |-> collection, connected |-> TRUE,
              error |-> IF collection = "None" THEN "not_initialized" ELSE "none",
              failures |-> 0]
        ELSE IF connect_ok
        THEN [client |-> "client", collection |-> "collection", connected |-> TRUE,
              error |-> "none", failures |-> 0]
        ELSE [client |-> "client", collection |-> "collection", connected |-> FALSE,
              error |-> "connection", failures |-> 2]

EnsureConnected(ping_ok, connect_ok) ==
    LET is_connected == connected /\ client # "None" /\ ping_ok
    IN  IF is_connected
        THEN [client |-> client, collection |-> collection, connected |-> TRUE,
              error |-> IF collection = "None" THEN "not_initialized" ELSE "none",
              failures |-> 0]
        ELSE IF connect_ok
        THEN [client |-> "client", collection |-> "collection", connected |-> TRUE,
              error |-> "none", failures |-> 0]
        ELSE [client |-> "client", collection |-> "collection", connected |-> FALSE,
              error |-> "connection", failures |-> 1]

SetConnection(c) ==
    /\ client' = c.client
    /\ collection' = c.collection
    /\ connected' = c.connected

(***************************************************************************)
(* The collaborators that change the collection, and the clock.            *)
(***************************************************************************)
\* MongoDBService.insert_document: created_at is the time of the insert.
insert_document(d) ==
    /\ pc = "idle"
    /\ d \notin Ids(store)
    /\ Len(store) < MaxStore
    /\ \E ping_ok \in BOOLEAN, connect_ok \in BOOLEAN :
         LET c == EnsureConnected(ping_ok, connect_ok)
         IN  /\ SetConnection(c)
             /\ store' = IF c.error = "none"
                         THEN Append(store, [id |-> d, created_at |-> now])
                         ELSE store
             /\ last' = IF c.error = "none" THEN NoLast ELSE last
    /\ UNCHANGED <<now, pc, call, locals, events, result, response, race>>

Tick ==
    /\ pc = "idle"
    /\ now + TickDays <= MaxClock
    /\ now' = now + TickDays
    /\ UNCHANGED <<store, conn, pc, call, locals, events, result, response, last, race>>

(***************************************************************************)
(* The entry points.                                                       *)
(***************************************************************************)
DefaultLimit == 10

Enter(entry, query, limit, filter_dict) ==
    /\ pc = "idle"
    /\ call' = [entry |-> entry, query |-> query, limit |-> limit,
                filter_dict |-> filter_dict]
    /\ pc' = "connect"
    /\ UNCHANGED <<store, now, conn, locals, events, result, response, last, race>>

\* POST /search of main.py: `request.limit or 10`, request.filter.
http_search ==
    \E query \in Queries, limit \in Limits, filter_dict \in Filters :
        Enter("http", query, IF limit = 0 THEN DefaultLimit ELSE limit, filter_dict)

\* POST /search with a request.filter keyed by an operator.
http_search_operator_filter ==
    \E query \in Queries, limit \in Limits, filter_dict \in OperatorFilters :
        Enter("http", query, IF limit = 0 THEN DefaultLimit ELSE limit, filter_dict)

\* The tool search_documents of mcp_server.py.
tool_search_documents ==
    \E query \in Queries, limit \in Limits :
        Enter("tool", query, limit, NoFilter)

\* The tool search_documents_by_metadata of mcp_server.py: the empty query
\* with the filter built from metadata_filter.
tool_search_documents_by_metadata ==
    \E limit \in Limits, filter_dict \in Filters \ {NoFilter} :
        Enter("metadata", Q_empty, limit, filter_dict)

\* The tool search_documents_semantic of mcp_server.py.
tool_search_documents_semantic ==
    \E query \in Queries, limit \in Limits :
        Enter("semantic", query, limit, NoFilter)

\* The tool get_all_documents of mcp_server.py.
tool_get_all_documents ==
    \E limit \in Limits :
        Enter("all", Q_empty, limit, NoFilter)

(***************************************************************************)
(* The end of a call.                                                      *)
(***************************************************************************)
DefaultRelevance == 10

\* What the entry point makes of the documents the service returned.
Reply(entry, docs) ==
    IF entry = "http"
    THEN [kind |-> "search_response", items |-> docs]
    ELSE IF entry \in {"metadata", "all"}
    THEN [kind |-> "list", items |-> [i \in DOMAIN docs |-> [id |-> docs[i].id]]]
    ELSE [kind |-> "list",
          items |-> [i \in DOMAIN docs |->
                       [id |-> docs[i].id,
                        relevance_score |-> getattr(docs[i], "_search_score", DefaultRelevance)]]]

\* The exception of the service passed on to the caller of a tool.
ReplyError_Propagates(entry) ==
    IF entry = "http"
    THEN [kind |-> "http_500", items |-> <<>>]
    ELSE [kind |-> "error", items |-> <<>>]

\* What the entry point makes of an exception of the service.
ReplyError(entry) ==
    IF entry = "http"
    THEN [kind |-> "http_500", items |-> <<>>]
    ELSE [kind |-> "list", items |-> <<>>]

Return(docs) ==
    /\ result' = [status |-> "returned", documents |-> docs, error |-> "none"]
    /\ response' = Reply(call.entry, docs)
    /\ pc' = "done"

\* The exception caught and an empty list returned in its place.
Raise_Swallowed(error) ==
    /\ result' = [status |-> "returned", documents |-> <<>>, error |-> "none"]
    /\ response' = Reply(call.entry, <<>>)
    /\ pc' = "done"

Raise(error) ==
    /\ result' = [status |-> "raised", documents |-> <<>>, error |-> error]
    /\ response' = ReplyError(call.entry)
    /\ pc' = "done"

QueryEvent(tier) == [ev |-> "query", tier |-> tier, id |-> 0, score |-> 0]

ErrorEvent(tier) == [ev |-> "error", tier |-> tier, id |-> 0, score |-> 0]

\* A run of connect() that raised: the store was unreachable.
ConnectFailed == [ev |-> "connect", tier |-> "unreachable", id |-> 0, score |-> 0]

\* The events of a store query that raises.
Failed(tier) == <<QueryEvent(tier), ErrorEvent(tier)>>

ScoreEvents(tier, dicts) ==
    [i \in DOMAIN dicts |->
        [ev |-> "score", tier |-> tier, id |-> dicts[i].id, score |-> dicts[i]._search_score]]

\* The first lines of search_documents, of search_documents_semantic and of
\* get_all_documents.
Connect ==
    /\ pc = "connect"
    /\ \E ping_ok \in BOOLEAN, connect_ok \in BOOLEAN :
         LET c == EnsureConnected(ping_ok, connect_ok)
         IN  /\ SetConnection(c)
             /\ events' = events \o [i \in 1..c.failures |-> ConnectFailed]
             /\ IF c.error = "none"
                THEN /\ pc' = CASE call.entry = "semantic" -> "aggregate"
                                 [] call.entry = "all" -> "get_all"
                                 [] OTHER -> "conceptual"
                     /\ UNCHANGED <<result, response>>
                ELSE Raise(c.error)
    /\ UNCHANGED <<store, now, call, locals, last, race>>

\* The locals of the call outliving it, as attributes of the service would.
Forget_KeepsDocuments ==
    /\ pc' = "idle"
    /\ call' = NoCall
    /\ events' = <<>>
    /\ result' = Pending
    /\ response' = NoResponse
    /\ UNCHANGED locals

\* The end of a call: its locals, which every call initialises anew, and
\* what it handed to its caller are gone.
Forget ==
    /\ pc' = "idle"
    /\ call' = NoCall
    /\ conceptual_docs' = <<>>
    /\ documents' = <<>>
    /\ remaining_limit' = 0
    /\ events' = <<>>
    /\ result' = Pending
    /\ response' = NoResponse

\* The caller takes the response; the service is ready for the next call.
Release ==
    /\ pc = "done"
    /\ Forget
    /\ UNCHANGED <<store, now, conn, last, race>>

\* The same, with an observer keeping the arguments of a call that returned
\* and the documents it returned.
ReleaseObserved ==
    /\ pc = "done"
    /\ Forget
    /\ last' = IF result.status = "returned"
               THEN [query |-> call.query, limit |-> call.limit,
                     filter_dict |-> call.filter_dict,
                     documents |-> result.documents, valid |-> TRUE]
               ELSE last
    /\ UNCHANGED <<store, now, conn, race>>


(***************************************************************************)
(* MongoDBService.search_documents, one step per store query.              *)
(***************************************************************************)
\* The records of the collection that satisfy the $or of conceptual_filter
\* and the entries of filter_dict.
ConceptualCandidates ==
    Find(store, LAMBDA r : UpdatedMatches("$or", Fact(r.id, call.query).conceptual,
                                          r.id, call.filter_dict))

\* The records that satisfy search_filter, sorted by textScore.
TextCandidates ==
    StableSort(Find(store, LAMBDA r : UpdatedMatches("$text",
                                                     Fact(r.id, call.query).text_score > 0,
                                                     r.id, call.filter_dict)),
               LAMBDA a, b : Fact(a.id, call.query).text_score
                             > Fact(b.id, call.query).text_score)

\* The records that satisfy keyword_filter.
KeywordCandidates ==
    Find(store, LAMBDA r : UpdatedMatches("$or", Fact(r.id, call.query).keyword,
                                          r.id, call.filter_dict))

Documents(dicts) == [i \in DOMAIN dicts |-> Document(dicts[i])]

\* The scored dictionaries written back to the records they came from.
StoreAfterSearch_WriteBack(dicts) ==
    [i \in DOMAIN store |->
        IF \E j \in DOMAIN dicts : dicts[j].id = store[i].id
        THEN CHOOSE x \in Range(dicts) : x.id = store[i].id
        ELSE store[i]]

\* The collection after the loop over a cursor: doc.pop('_id'), doc['id'] and
\* doc['_search_score'] change the dictionary the cursor yielded, and no
\* write is sent to the collection.
StoreAfterSearch(dicts) == store

\* The conceptual tier: the query with limit // 3 and the loop over its
\* cursor.  ok is whether the store answers the query.
ConceptualTier ==
    /\ pc = "conceptual"
    /\ \E ok \in BOOLEAN :
         LET cursor == CursorLimit(ConceptualCandidates, call.limit \div 3)
             dicts == [i \in DOMAIN cursor |->
                         ScoredDict(cursor[i], Fact(cursor[i].id, call.query).conceptual_score)]
         IN  IF ok
             THEN /\ events' = events \o <<QueryEvent("conceptual")>>
                                      \o ScoreEvents("conceptual", dicts)
                  /\ conceptual_docs' = Documents(dicts)
                  /\ documents' = documents \o Documents(dicts)
                  /\ remaining_limit' = call.limit - Len(dicts)
                  /\ store' = StoreAfterSearch(dicts)
                  /\ pc' = "fulltext"
                  /\ UNCHANGED <<result, response>>
             ELSE /\ events' = events \o Failed("conceptual")
                  /\ Raise("store")
                  /\ UNCHANGED <<store, locals>>
    /\ UNCHANGED <<now, conn, call, last, race>>

\* The loop over the full-text cursor scoring every document it yields.
FullTextDicts_ScoreAll ==
    LET cursor == CursorLimit(TextCandidates, remaining_limit)
    IN  [i \in DOMAIN cursor |->
            ScoredDict(cursor[i], Fact(cursor[i].id, call.query).final_score)]

\* The documents the loop over the full-text cursor scores: those whose id
\* is not in conceptual_ids.
FullTextDicts ==
    LET cursor == CursorLimit(TextCandidates, remaining_limit)
        conceptual_ids == Ids(conceptual_docs)
        fresh == SelectSeq(cursor, LAMBDA r : r.id \notin conceptual_ids)
    IN  [i \in DOMAIN fresh |->
            ScoredDict(fresh[i], Fact(fresh[i].id, call.query).final_score)]

\* The full-text tier: skipped unless remaining_limit > 0.
FullTextTier ==
    /\ pc = "fulltext"
    /\ IF remaining_limit > 0
       THEN \E ok \in BOOLEAN :
              IF ok
              THEN /\ events' = events \o <<QueryEvent("fulltext")>>
                                       \o ScoreEvents("fulltext", FullTextDicts)
                   /\ documents' = documents \o Documents(FullTextDicts)
                   /\ store' = StoreAfterSearch(FullTextDicts)
                   /\ pc' = "fallback"
                   /\ UNCHANGED <<result, response>>
              ELSE /\ events' = events \o Failed("fulltext")
                   /\ Raise("store")
                   /\ UNCHANGED <<store, documents>>
       ELSE /\ pc' = "fallback"
            /\ UNCHANGED <<store, events, documents, result, response>>
    /\ UNCHANGED <<now, conn, call, conceptual_docs, remaining_limit, last, race>>

\* The fallback loop without the test of existing_ids.
FallbackDicts_NoDedup ==
    LET cursor == CursorLimit(KeywordCandidates, remaining_limit)
    IN  [i \in DOMAIN cursor |-> ScoredDict(cursor[i], FallbackScore)]

\* The documents the loop over the fallback cursor adds: those whose id is
\* not in existing_ids.
FallbackDicts ==
    LET cursor == CursorLimit(KeywordCandidates, remaining_limit)
        existing_ids == Ids(documents)
        fresh == SelectSeq(cursor, LAMBDA r : r.id \notin existing_ids)
    IN  [i \in DOMAIN fresh |-> ScoredDict(fresh[i], FallbackScore)]

\* documents.sort(key=lambda x: getattr(x, '_search_score', 0), reverse=True)
SortKeyDefault == 0

\* An ascending sort turned around: ties come out in reverse order.
SortByScore_AscendingReversed(docs) ==
    LET up == StableSort(docs, LAMBDA a, b : getattr(a, "_search_score", SortKeyDefault)
                                             < getattr(b, "_search_score", SortKeyDefault))
    IN  [i \in DOMAIN up |-> up[Len(up) + 1 - i]]

SortByScore(docs) ==
    StableSort(docs, LAMBDA a, b : getattr(a, "_search_score", SortKeyDefault)
                                   > getattr(b, "_search_score", SortKeyDefault))

\* The sorted list returned whole.
Merged_NoSlice(docs) == SortByScore(docs)

\* return documents[:limit], after the sort
Merged(docs) == Slice(SortByScore(docs), call.limit)

\* The $or of keyword_filter after update(filter_dict) has a clause: one
\* per keyword, or the clauses of a $or of filter_dict.
KeywordFilterValid ==
    \/ Keywords(Lower(call.query)) # <<>>
    \/ "$or" \in DOMAIN call.filter_dict

\* The test with the comparison of the gathered documents left out.
FallbackTriggered_BudgetOnly == remaining_limit > 0

\* The test with <= in the place of <.
FallbackTriggered_AtMostHalf == Len(documents) <= call.limit \div 2 /\ remaining_limit > 0

\* if len(documents) < limit // 2 and remaining_limit > 0
FallbackTriggered == Len(documents) < call.limit \div 2 /\ remaining_limit > 0

\* The keyword fallback tier and the end of search_documents: the fallback
\* query is sent if fewer than limit // 2 documents were gathered and
\* remaining_limit > 0; the store rejects a $or without clauses.
FallbackTier ==
    /\ pc = "fallback"
    /\ IF FallbackTriggered
       THEN \E ok \in BOOLEAN :
              IF ok /\ KeywordFilterValid
              THEN /\ events' = events \o <<QueryEvent("fallback")>>
                                       \o ScoreEvents("fallback", FallbackDicts)
                   /\ documents' = documents \o Documents(FallbackDicts)
                   /\ store' = StoreAfterSearch(FallbackDicts)
                   /\ Return(Merged(documents \o Documents(FallbackDicts)))
              ELSE /\ events' = events \o Failed("fallback")
                   /\ Raise("store")
                   /\ UNCHANGED <<store, documents>>
       ELSE /\ Return(Merged(documents))
            /\ UNCHANGED <<store, events, documents>>
    /\ UNCHANGED <<now, conn, call, conceptual_docs, remaining_limit, last, race>>

(***************************************************************************)
(* MongoDBService.search_documents_semantic.                               *)
(***************************************************************************)
\* The records that pass the $match stage.
SemanticCandidates ==
    Find(store, LAMBDA r : UpdatedMatches("$or", Fact(r.id, call.query).semantic,
                                          r.id, call.filter_dict))

\* The $addFields stage.
WithRelevance(recs) ==
    [i \in DOMAIN recs |->
        ScoredDict(recs[i], relevance_score(recs[i].id, call.query, recs[i].created_at, now))]

\* The sort on relevance_score alone.
SortStage_ScoreOnly(dicts) ==
    StableSort(dicts, LAMBDA a, b : a._search_score > b._search_score)

\* {"$sort": {"relevance_score": -1, "created_at": -1}}
SortStage(dicts) ==
    StableSort(dicts, LAMBDA a, b : \/ a._search_score > b._search_score
                                    \/ /\ a._search_score = b._search_score
                                       /\ a.created_at > b.created_at)

\* {"$limit": limit}
LimitStage(dicts) == SubSeq(dicts, 1, Min(call.limit, Len(dicts)))

Pipeline == LimitStage(SortStage(WithRelevance(SemanticCandidates)))

\* The aggregation and the loop over its cursor; the store rejects a $limit
\* that is not positive.
Aggregate ==
    /\ pc = "aggregate"
    /\ \E ok \in BOOLEAN :
         IF ok /\ call.limit > 0
         THEN /\ events' = events \o <<QueryEvent("aggregate")>>
                                  \o ScoreEvents("aggregate", Pipeline)
              /\ documents' = Documents(Pipeline)
              /\ store' = StoreAfterSearch(Pipeline)
              /\ Return(Documents(Pipeline))
         ELSE /\ events' = events \o Failed("aggregate")
              /\ Raise("store")
              /\ UNCHANGED <<store, documents>>
    /\ UNCHANGED <<now, conn, call, conceptual_docs, remaining_limit, last, race>>

(***************************************************************************)
(* MongoDBService.get_all_documents.                                       *)
(***************************************************************************)
\* find().limit(limit).sort("created_at", -1): the cursor sorts, then
\* limits; documents of one created_at are taken in their natural order.
AllDocuments ==
    CursorLimit(StableSort(store, LAMBDA a, b : a.created_at > b.created_at), call.limit)

\* The query and the loop over its cursor.
GetAll ==
    /\ pc = "get_all"
    /\ \E ok \in BOOLEAN :
         IF ok
         THEN /\ events' = events \o <<QueryEvent("all")>>
              /\ documents' = Documents(AllDocuments)
              /\ Return(Documents(AllDocuments))
         ELSE /\ events' = events \o Failed("all")
              /\ Raise("store")
              /\ UNCHANGED documents
    /\ UNCHANGED <<store, now, conn, call, conceptual_docs, remaining_limit, last, race>>

(***************************************************************************)
(* Concurrent store operations in is_connected() and connect().  Each      *)
(* operation is a coroutine of the one event loop: it runs alone from one  *)
(* await to the next, and the others run while it awaits.                  *)
(***************************************************************************)
call_idle == <<store, now, pc, call, locals, events, result, response, last>>

\* connect(), lines 21 to 28: a new client, the database and the collection
\* of that client, and the ping of that client sent.
Install(t) ==
    /\ handles.client < MaxClients
    /\ LET n == handles.client + 1
       IN  /\ handles' = [client |-> n, database |-> n, collection |-> n]
           /\ tasks' = [tasks EXCEPT ![t] = [pc |-> "connect_ping", mine |-> n]]
    /\ client' = "client"
    /\ collection' = "collection"

\* `if not await self.is_connected(): await self.connect()`, up to the first
\* await: the ping of is_connected if the service holds itself connected,
\* the ping of connect otherwise.
BeginOperation(t) ==
    /\ pc = "idle"
    /\ tasks[t].pc = "idle"
    /\ IF connected /\ handles.client # 0
       THEN /\ tasks' = [tasks EXCEPT ![t] = [pc |-> "is_connected_ping",
                                               mine |-> handles.client]]
            /\ UNCHANGED <<conn, handles>>
       ELSE /\ Install(t)
            /\ UNCHANGED connected
    /\ UNCHANGED <<pinged, call_idle>>

\* The ping of is_connected answers or fails; if it fails the operation
\* goes on into connect().
is_connected_ping(t) ==
    /\ tasks[t].pc = "is_connected_ping"
    /\ \/ /\ pinged' = pinged \cup {tasks[t].mine}
          /\ tasks' = [tasks EXCEPT ![t] = Waiting]
          /\ UNCHANGED <<conn, handles>>
       \/ /\ connected' = FALSE
          /\ Install(t)
          /\ UNCHANGED pinged
    /\ UNCHANGED call_idle

\* The ping of connect answers, and connect goes on to the first index; or
\* it fails, and connect raises.
connect_ping(t) ==
    /\ tasks[t].pc = "connect_ping"
    /\ \/ /\ pinged' = pinged \cup {tasks[t].mine}
          /\ connected' = TRUE
          /\ tasks' = [tasks EXCEPT ![t].pc = "create_text_index"]
       \/ /\ connected' = FALSE
          /\ tasks' = [tasks EXCEPT ![t] = Waiting]
          /\ UNCHANGED pinged
    /\ UNCHANGED <<client, collection, handles, call_idle>>

\* A create_index of connect answers, or it fails and connect raises.
connect_create_index(t) ==
    /\ tasks[t].pc \in {"create_text_index", "create_date_index"}
    /\ \/ /\ tasks' = [tasks EXCEPT ![t] =
                          IF tasks[t].pc = "create_text_index"
                          THEN [pc |-> "create_date_index", mine |-> tasks[t].mine]
                          ELSE Waiting]
          /\ UNCHANGED connected
       \/ /\ connected' = FALSE
          /\ tasks' = [tasks EXCEPT ![t] = Waiting]
    /\ UNCHANGED <<client, collection, handles, pinged, call_idle>>

NextConn ==
    \E t \in Tasks :
        \/ BeginOperation(t)
        \/ is_connected_ping(t)
        \/ connect_ping(t)
        \/ connect_create_index(t)

SpecConn == Init /\ [][NextConn]_vars

(***************************************************************************)
(* The specifications.                                                     *)
(***************************************************************************)
\* search_documents, reached through POST /search and through the tool.
NextStd ==
    \/ \E d \in Corpus : insert_document(d)
    \/ http_search
    \/ tool_search_documents
    \/ tool_search_documents_by_metadata
    \/ Connect
    \/ ConceptualTier
    \/ FullTextTier
    \/ FallbackTier
    \/ Release

SpecStd == Init /\ [][NextStd]_vars

\* search_documents_semantic, reached through its tool, with the clock.
NextSem ==
    \/ \E d \in Corpus : insert_document(d)
    \/ Tick
    \/ tool_search_documents_semantic
    \/ Connect
    \/ Aggregate
    \/ Release

SpecSem == Init /\ [][NextSem]_vars

\* The scoring of search_documents_semantic over collections of MaxStore
\* documents of the whole catalogue, each inserted on day 0 or on the day of
\* the search.  The order of a collection has no part in the scores, so
\* the collections are taken in the order of the catalogue.
ScoredStores ==
    {st \in [1..MaxStore -> [id : DocIds, created_at : {0, MaxClock}]] :
        \A i \in 1..(MaxStore - 1) : st[i].id < st[i + 1].id}

InitScore ==
    /\ store \in ScoredStores
    /\ now = MaxClock
    /\ Constructed

NextScore ==
    \/ tool_search_documents_semantic
    \/ Connect
    \/ Aggregate
    \/ Release

SpecScore == InitScore /\ [][NextScore]_vars

\* Calls of search_documents and of search_documents_semantic in any
\* sequence, between inserts.
NextCalls ==
    \/ \E d \in Corpus : insert_document(d)
    \/ http_search
    \/ tool_search_documents
    \/ tool_search_documents_by_metadata
    \/ tool_search_documents_semantic
    \/ Connect
    \/ ConceptualTier
    \/ FullTextTier
    \/ FallbackTier
    \/ Aggregate
    \/ Release

SpecCalls == Init /\ [][NextCalls]_vars

\* search_documents, with an observer that keeps the latest returned call.
NextIdem ==
    \/ \E d \in ObservedCorpus : insert_document(d)
    \/ http_search
    \/ tool_search_documents
    \/ Connect
    \/ ConceptualTier
    \/ FullTextTier
    \/ FallbackTier
    \/ ReleaseObserved

SpecIdem == Init /\ [][NextIdem]_vars

\* search_documents reached through POST /search, whose request.filter is
\* any dictionary: of field paths, or of operators.
NextFilter ==
    \/ \E d \in Corpus : insert_document(d)
    \/ http_search
    \/ http_search_operator_filter
    \/ Connect
    \/ ConceptualTier
    \/ FullTextTier
    \/ FallbackTier
    \/ Release

SpecFilter == Init /\ [][NextFilter]_vars

\* The four tools of mcp_server.py that return lists of documents.
NextTools ==
    \/ \E d \in Corpus : insert_document(d)
    \/ tool_search_documents
    \/ tool_search_documents_semantic
    \/ tool_search_documents_by_metadata
    \/ tool_get_all_documents
    \/ Connect
    \/ ConceptualTier
    \/ FullTextTier
    \/ FallbackTier
    \/ Aggregate
    \/ GetAll
    \/ Release

SpecTools == Init /\ [][NextTools]_vars

Next ==
    \/ \E d \in Corpus : insert_document(d)
    \/ Tick
    \/ http_search
    \/ http_search_operator_filter
    \/ tool_search_documents
    \/ tool_search_documents_by_metadata
    \/ tool_search_documents_semantic
    \/ tool_get_all_documents
    \/ Connect
    \/ ConceptualTier
    \/ FullTextTier
    \/ FallbackTier
    \/ Aggregate
    \/ GetAll
    \/ Release

Spec == Init /\ [][Next]_vars


(***************************************************************************)
(* The properties.                                                         *)
(***************************************************************************)
\* The call in flight goes through MongoDBService.search_documents.
StdCall == call.entry \in {"http", "tool", "metadata"}

\* The call in flight goes through MongoDBService.search_documents_semantic.
SemCall == call.entry = "semantic"

Returned == result.status = "returned"

\* The event in which the call scored the document with this id.
ScoreEventOf(id) == CHOOSE e \in Range(events) : e.ev = "score" /\ e.id = id

\* The score the call computed for a document it gathered, and the tier.
ScoreOf(id) == ScoreEventOf(id).score
TierOf(id) == ScoreEventOf(id).tier

Issued(tier) == \E e \in Range(events) : e.ev = "query" /\ e.tier = tier

\* The place of a document in the gathered list.
GatherIndex(id) == CHOOSE i \in DOMAIN documents : documents[i].id = id

\* C1: for a limit L > 0 the list search_documents returns has at most L
\* documents.
C1_AtMostLimit ==
    (StdCall /\ Returned /\ call.limit > 0)
        => Len(result.documents) <= call.limit

\* The tiers gathered more than the limit and the returned list was cut.
C1_Witness ==
    /\ StdCall /\ Returned /\ call.limit > 0
    /\ Len(documents) > call.limit
    /\ Len(result.documents) = call.limit

\* C2: no document identity appears twice in the list search_documents
\* returns.
C2_NoDuplicateIds ==
    (StdCall /\ Returned)
        => \A i, j \in DOMAIN result.documents :
               result.documents[i].id = result.documents[j].id => i = j

\* All three tiers sent their query, and a returned document satisfies the
\* predicates of all three.
C2_Witness ==
    /\ StdCall /\ Returned
    /\ Issued("conceptual") /\ Issued("fulltext") /\ Issued("fallback")
    /\ \E i \in DOMAIN result.documents :
         LET f == Fact(result.documents[i].id, call.query)
         IN  f.conceptual /\ f.text_score > 0 /\ f.keyword

\* C3: the list search_documents returns is ordered by the score the tiers
\* computed, highest first, and documents of equal score keep the order in
\* which they were gathered.
C3_OrderedByTierScore ==
    (StdCall /\ Returned)
        => \A i, j \in DOMAIN result.documents :
               i < j =>
                 LET a == result.documents[i].id
                     b == result.documents[j].id
                 IN  /\ ScoreOf(a) >= ScoreOf(b)
                     /\ ScoreOf(a) = ScoreOf(b) => GatherIndex(a) < GatherIndex(b)

\* C4 as stated: no returned document that satisfies the conceptual
\* predicate stands below a returned document of equal score that only the
\* full-text tier found.
C4_PredicateNeverBelow ==
    (StdCall /\ Returned)
        => \A i, j \in DOMAIN result.documents :
               LET a == result.documents[i].id
                   b == result.documents[j].id
               IN  ~ /\ i < j
                     /\ TierOf(a) = "fulltext"
                     /\ ~Fact(a, call.query).conceptual
                     /\ Fact(b, call.query).conceptual
                     /\ ScoreOf(a) = ScoreOf(b)

\* C4 amended: no document the conceptual tier gathered stands below a
\* returned document of equal score that the full-text tier gathered.
C4_GatheredNeverBelow ==
    (StdCall /\ Returned)
        => \A i, j \in DOMAIN result.documents :
               LET a == result.documents[i].id
                   b == result.documents[j].id
               IN  ~ /\ i < j
                     /\ TierOf(a) = "fulltext"
                     /\ TierOf(b) = "conceptual"
                     /\ ScoreOf(a) = ScoreOf(b)

\* A conceptual-tier document and a full-text-tier document of equal score
\* are both returned, while a third stored document satisfies the conceptual
\* predicate and was left to the later tiers.
C4_Witness ==
    /\ StdCall /\ Returned
    /\ \E i, j \in DOMAIN result.documents :
         /\ TierOf(result.documents[i].id) = "conceptual"
         /\ TierOf(result.documents[j].id) = "fulltext"
         /\ ScoreOf(result.documents[i].id) = ScoreOf(result.documents[j].id)
    /\ \E r \in Range(store) :
         /\ Fact(r.id, call.query).conceptual
         /\ FilterMatches(r.id, call.filter_dict)
         /\ r.id \notin Ids(conceptual_docs)

\* C5: every score the full-text tier assigns is at least 0.1.
C5_ScoreFloor ==
    \A e \in Range(events) :
        (e.ev = "score" /\ e.tier = "fulltext") => e.score >= ScoreFloor

\* The full-text tier scored a document whose penalties exceed its text
\* score and bonus.
C5_Witness ==
    \E e \in Range(events) :
        /\ e.ev = "score" /\ e.tier = "fulltext"
        /\ Fact(e.id, call.query).unclamped < ScoreFloor
        /\ e.score = ScoreFloor

\* C6: a search with a limit of zero or less is rejected as invalid input
\* before any tier sends a query to the store.
C6_RejectedBeforeQuery ==
    (StdCall /\ call.limit <= 0)
        => /\ \A e \in Range(events) : e.ev # "query"
           /\ ~Returned

\* C7: when the store query of a tier fails, search_documents raises that
\* error; it returns neither the documents gathered so far nor an empty
\* list.
C7_TierFailureRaises ==
    (StdCall /\ \E e \in Range(events) : e.ev = "error")
        => /\ pc = "done"
           /\ result.status = "raised"
           /\ result.error = "store"
           /\ result.documents = <<>>

\* A later tier failed after an earlier tier had gathered documents.
C7_Witness ==
    /\ StdCall
    /\ documents # <<>>
    /\ \E e \in Range(events) : e.ev = "error" /\ e.tier \in {"fulltext", "fallback"}
    /\ result.status = "raised"

\* C8: the relevance_score a tool reports for a document is the score the
\* search computed for it.
C8_ReportedScoreIsComputed ==
    (call.entry \in {"tool", "semantic"} /\ Returned)
        => \A i \in DOMAIN response.items :
               response.items[i].relevance_score = ScoreOf(response.items[i].id)


\* The stored records that pass the match of the semantic search.
SemanticMatching ==
    {r \in Range(store) : /\ Fact(r.id, call.query).semantic
                          /\ FilterMatches(r.id, call.filter_dict)}

\* The composite score of a stored record at the time of the call.
Composite(r) == relevance_score(r.id, call.query, r.created_at, now)

\* a comes before b in the order of the semantic search.
Outranks(a, b) ==
    \/ Composite(a) > Composite(b)
    \/ Composite(a) = Composite(b) /\ a.created_at > b.created_at

\* C9: search_documents_semantic returns the first min(limit, matches)
\* documents of the matching set in the order of composite score, highest
\* first, then creation time, latest first; no matching document left out
\* outranks a returned one.
C9_TopOfRanking ==
    (SemCall /\ Returned)
        => LET docs == result.documents
           IN  /\ Len(docs) = Min(call.limit, Cardinality(SemanticMatching))
               /\ \A i \in DOMAIN docs : docs[i] \in SemanticMatching
               /\ \A i, j \in DOMAIN docs :
                      i < j => (docs[i].id # docs[j].id /\ ~Outranks(docs[j], docs[i]))
               /\ \A m \in SemanticMatching :
                      m.id \notin Ids(docs)
                          => \A i \in DOMAIN docs : ~Outranks(m, docs[i])

\* More documents match than the limit admits, and the creation time
\* decides between a returned document and one of equal score left out.
C9_Witness ==
    /\ SemCall /\ Returned
    /\ Cardinality(SemanticMatching) > call.limit
    /\ \E m \in SemanticMatching :
         /\ m.id \notin Ids(result.documents)
         /\ \E i \in DOMAIN result.documents :
              /\ Composite(result.documents[i]) = Composite(m)
              /\ result.documents[i].created_at > m.created_at

\* The seven terms of the composite score of a stored record.
SevenTerms(r) ==
    LET f == Fact(r.id, call.query)
    IN  << IF f.text_score > 0 THEN f.text_score ELSE 0,
           IF f.title_regex THEN 50 ELSE 0,
           IF f.title_prefix THEN 80 ELSE 0,
           IF ContentLen(r.id) < 1000 THEN 20 ELSE 0,
           IF now - r.created_at < 30 THEN 10 ELSE 0,
           IF f.technical_usage THEN -20 ELSE 0,
           IF f.conceptual_language THEN 30 ELSE 0 >>

\* A document with a text hit of 1.0 and no other term but recency.
OnlyTextHit(d) ==
    LET f == Fact(d, call.query)
    IN  /\ f.text_score = 10
        /\ ~f.title_regex /\ ~f.title_prefix /\ ~f.technical_usage
        /\ ~f.conceptual_language
        /\ ContentLen(d) >= 1000

\* An old document with only a text hit, and a document with the same
\* content and metadata created within the last 30 days, at places i and j
\* of the returned list.
OldAndRecentTwin(i, j) ==
    LET a == result.documents[i]
        b == result.documents[j]
    IN  /\ OnlyTextHit(a.id)
        /\ Catalogue[a.id] = Catalogue[b.id]
        /\ now - a.created_at > 30
        /\ now - b.created_at < 30

\* C10: the composite score of a matched document is the sum of the seven
\* terms; a document older than 30 days with only a text hit of 1.0 scores
\* 1.0 and stands below an otherwise identical document created recently.
C10_SumOfSevenTerms ==
    (SemCall /\ Returned)
        => /\ \A e \in Range(events) :
                e.ev = "score" =>
                  \E r \in Range(store) :
                      LET t == SevenTerms(r)
                      IN  /\ r.id = e.id
                          /\ e.score = t[1] + t[2] + t[3] + t[4] + t[5] + t[6] + t[7]
           /\ \A i, j \in DOMAIN result.documents :
                OldAndRecentTwin(i, j)
                    => (ScoreOf(result.documents[i].id) = 10 /\ j < i)

\* The old document and its recent twin are both returned.
C10_Witness ==
    /\ SemCall /\ Returned
    /\ \E i, j \in DOMAIN result.documents : OldAndRecentTwin(i, j)


\* The six conditions of the composite score of a stored record, beside its
\* text score: title substring, title prefix, short content, recency,
\* technical usage, conceptual language.
Conditions(r) ==
    LET f == Fact(r.id, call.query)
    IN  [ title_regex |-> f.title_regex,
          title_prefix |-> f.title_prefix,
          short_content |-> f.short_content,
          recent |-> r.created_at > now - RecencyDays,
          technical_usage |-> f.technical_usage,
          conceptual_language |-> f.conceptual_language ]

BonusConditions ==
    {"title_regex", "title_prefix", "short_content", "recent", "conceptual_language"}

PenaltyCondition == "technical_usage"

\* a satisfies condition k and b does not; in everything else that enters
\* the composite score the two are alike.
DiffersOnlyIn(a, b, k) ==
    /\ Fact(a.id, call.query).text_score = Fact(b.id, call.query).text_score
    /\ Conditions(a)[k] /\ ~Conditions(b)[k]
    /\ \A n \in DOMAIN Conditions(a) : n # k => (Conditions(a)[n] <=> Conditions(b)[n])

\* The stored records the call scored.
Scored == {r \in Range(store) : \E e \in Range(events) : e.ev = "score" /\ e.id = r.id}

\* C11: of two matched documents that differ only in one bonus condition,
\* the one that satisfies it has the strictly higher composite score; of two
\* that differ only in the technical-usage condition, the one that satisfies
\* it has the strictly lower composite score.
C11_Monotone ==
    (SemCall /\ Returned)
        => \A a, b \in Scored :
               /\ \A k \in BonusConditions :
                      DiffersOnlyIn(a, b, k) => ScoreOf(a.id) > ScoreOf(b.id)
               /\ DiffersOnlyIn(a, b, PenaltyCondition) => ScoreOf(a.id) < ScoreOf(b.id)

\* The call scored a pair that differs only in a bonus condition and a pair
\* that differs only in the penalty condition.
C11_Witness ==
    /\ SemCall /\ Returned
    /\ \E a, b \in Scored : \E k \in BonusConditions : DiffersOnlyIn(a, b, k)
    /\ \E a, b \in Scored : DiffersOnlyIn(a, b, PenaltyCondition)

\* The call in flight has the arguments of the latest call that returned,
\* and the collection has not changed since that call.
Repeated ==
    /\ StdCall
    /\ last.valid
    /\ last.query = call.query
    /\ last.limit = call.limit
    /\ DOMAIN last.filter_dict = DOMAIN call.filter_dict
    /\ \A path \in DOMAIN call.filter_dict : last.filter_dict[path] = call.filter_dict[path]

\* C12: a search_documents call with the query, the limit and the filter of
\* an earlier call, on a collection not changed since, returns the documents
\* the earlier call returned, in the same order.
C12_SameResult ==
    (Repeated /\ Returned) => result.documents = last.documents

\* The repeated call returned several documents, from more than one tier.
C12_Witness ==
    /\ Repeated /\ Returned
    /\ Len(result.documents) >= 2
    /\ \E i, j \in DOMAIN result.documents :
         TierOf(result.documents[i].id) # TierOf(result.documents[j].id)

\* The stored records that satisfy the filter of the call.
FilterMatching == {r \in Range(store) : FilterMatches(r.id, call.filter_dict)}

\* The call in flight is a search by metadata alone: the empty query with a
\* filter, and a limit above zero.
MetadataCall == call.entry = "metadata" /\ call.query = Q_empty /\ call.limit > 0

\* C13: a search with the empty query and a filter sends the store no query
\* that the store rejects, and returns the documents that match the filter,
\* up to the limit.
C13_MetadataSearchFills ==
    MetadataCall
        => /\ (pc = "fallback" /\ FallbackTriggered)
                  => Keywords(Lower(call.query)) # <<>>
           /\ Returned
                  => Len(result.documents) = Min(call.limit, Cardinality(FilterMatching))

\* A step of a search call: the call is in flight before it or after it.
SearchStep == pc # "idle" \/ pc' # "idle"

\* C14: the steps of search_documents and search_documents_semantic leave
\* the collection as it is: the same records, in the same order, with the
\* same fields; and no stored record ever holds a computed score.
C14_StoreUnchanged ==
    /\ [](\A r \in Range(store) : "_search_score" \notin DOMAIN r)
    /\ [][SearchStep => store' = store]_vars

\* A call has scored stored documents and returned them.
C14_Witness ==
    /\ Returned
    /\ result.documents # <<>>
    /\ \E e \in Range(events) : e.ev = "score" /\ e.id \in Ids(store)

\* C15: whenever the service holds itself connected, the client it holds
\* is one that has answered a ping, and its client, database and collection
\* handles were made from the same client.
C15_ConnectedClientPinged ==
    connected
        => /\ handles.client \in pinged
           /\ handles.database = handles.client
           /\ handles.collection = handles.client

\* The runs of connect() in which the call in flight found the store
\* unreachable.
ConnectAttempts == {i \in DOMAIN events : events[i].ev = "connect"}

\* The call found the store unreachable.
Unreachable == ConnectAttempts # {}

\* C16: a search call that finds the store unreachable has run connect() at
\* most once, has sent no tier query, leaves the connected flag false and
\* raises the connection error.
C16_FailsWithoutRetry ==
    Unreachable
        => /\ Cardinality(ConnectAttempts) <= 1
           /\ \A e \in Range(events) : e.ev # "query"
           /\ ~connected
           /\ pc = "done"
           /\ result.status = "raised"
           /\ result.error = "connection"
           /\ result.documents = <<>>

\* A search on a collection that holds documents found the store
\* unreachable.
C16_Witness ==
    /\ StdCall
    /\ Unreachable
    /\ store # <<>>
    /\ result.status = "raised"

\* C17: for a limit L > 0 the conceptual tier of search_documents gathers
\* at most L // 3 documents, and so none for L = 1 and L = 2.
C17_ConceptualBudget ==
    (StdCall /\ call.limit > 0)
        => /\ Len(conceptual_docs) <= call.limit \div 3
           /\ Cardinality({i \in DOMAIN events :
                              events[i].ev = "score" /\ events[i].tier = "conceptual"})
                  <= call.limit \div 3

\* The number of the phrases of a sequence that occur in the lower-cased
\* content or in the lower-cased title of a document.
Occurring(d, phrases) ==
    Cardinality({i \in DOMAIN phrases :
                    \/ Contains(Lower(ContentOf(d)), phrases[i])
                    \/ Contains(Lower(TitleOf(d)), phrases[i])})

\* max(0.1, t - 0.3 * p + 0.2 * b), in tenths.
AdjustedScore(t, p, b) ==
    LET raw == t - 3 * p + 2 * b
    IN  IF raw > 1 THEN raw ELSE 1

\* C18: the score of a document the full-text tier adds is
\* max(0.1, t - 0.3 p + 0.2 b): t its text score, p how many of the six
\* technical phrases of the query occur in its content or title, b how many
\* of the five conceptual indicators do; p and b are not capped.
C18_FullTextScore ==
    \A e \in Range(events) :
        (e.ev = "score" /\ e.tier = "fulltext")
            => LET q == Lower(call.query)
                   p == Occurring(e.id,
                            << q \o Sp \o W_search, q \o Sp \o W_api, q \o Sp \o W_tool,
                               q \o Sp \o W_function, W_search \o Sp \o q,
                               W_using \o Sp \o q >>)
                   b == Occurring(e.id,
                            << W_what \o Sp \o W_is, W_definition, W_overview,
                               W_introduction, W_about >>)
               IN  e.score = AdjustedScore(Fact(e.id, call.query).text_score, p, b)

\* The full-text tier scored a document with several technical phrases and
\* a document with several conceptual indicators.
C18_Witness ==
    /\ \E e \in Range(events) :
         /\ e.ev = "score" /\ e.tier = "fulltext"
         /\ penalty(e.id, Lower(call.query)) > 2 * PenaltyStep
    /\ \E e \in Range(events) :
         /\ e.ev = "score" /\ e.tier = "fulltext"
         /\ bonus(e.id) >= 2 * BonusStep

\* The places of events at which a tier scored a document.
ScoresOf(tiers) ==
    {i \in DOMAIN events : events[i].ev = "score" /\ events[i].tier \in tiers}

\* C19: the keyword fallback sends its query only if the conceptual and
\* full-text tiers gathered fewer than limit // 2 documents and the
\* conceptual tier left budget for the full-text tier; each document it adds
\* was not gathered before and gets the score 0.3.
C19_FallbackGuard ==
    /\ Issued("fallback")
          => /\ Cardinality(ScoresOf({"conceptual", "fulltext"})) < call.limit \div 2
             /\ call.limit - Cardinality(ScoresOf({"conceptual"})) > 0
    /\ \A i \in ScoresOf({"fallback"}) :
          /\ events[i].score = 3
          /\ \A j \in ScoresOf({"conceptual", "fulltext", "fallback"}) :
                 j # i => events[j].id # events[i].id

\* The fallback added a document and passed over a keyword match that an
\* earlier tier had gathered.
C19_Witness ==
    /\ StdCall /\ Returned
    /\ ScoresOf({"fallback"}) # {}
    /\ \E j \in ScoresOf({"conceptual", "fulltext"}) :
         Fact(events[j].id, call.query).keyword

\* The place of a tier in the sequence of a call; connecting comes first.
TierRank(tier) ==
    CASE tier = "conceptual" -> 1
      [] tier = "fulltext" -> 2
      [] tier = "fallback" -> 3
      [] OTHER -> 0

\* C20: within a search_documents call every event of a tier comes after
\* every event of the tiers before it, so a query is sent only when the
\* cursor of the tier before is used up; a tier scores only after its own
\* query; and a document gathered once is never scored again.
C20_TiersInSequence ==
    StdCall
        => /\ \A i, j \in DOMAIN events :
                  i < j => TierRank(events[i].tier) <= TierRank(events[j].tier)
           /\ \A i \in DOMAIN events :
                  events[i].ev \in {"score", "error"}
                      => \E j \in 1..(i - 1) :
                             events[j].ev = "query" /\ events[j].tier = events[i].tier
           /\ (Issued("fulltext") \/ Issued("fallback")) => Issued("conceptual")
           /\ \A i, j \in ScoresOf({"conceptual", "fulltext", "fallback"}) :
                  events[i].id = events[j].id => i = j

\* All three tiers sent their query and scored a document, and the
\* full-text cursor yielded a document the conceptual tier had gathered.
C20_Witness ==
    /\ StdCall /\ Returned
    /\ ScoresOf({"conceptual"}) # {}
    /\ ScoresOf({"fulltext"}) # {}
    /\ ScoresOf({"fallback"}) # {}
    /\ \E i \in ScoresOf({"conceptual"}) :
         Fact(events[i].id, call.query).text_score > 0

\* The match predicate of the tier that gathered a document.
TierPredicate(id) ==
    CASE TierOf(id) = "conceptual" -> Fact(id, call.query).conceptual
      [] TierOf(id) = "fulltext" -> Fact(id, call.query).text_score > 0
      [] TierOf(id) = "fallback" -> Fact(id, call.query).keyword
      [] OTHER -> FALSE

\* C21: when a filter is given, every document search_documents returns
\* satisfies every entry of the filter and also the match predicate of the
\* tier that gathered it; the filter never takes the place of a tier
\* predicate.
C21_FilterAnded ==
    (Returned /\ StdCall /\ call.filter_dict # NoFilter)
        => \A i \in DOMAIN result.documents :
               /\ FilterMatches(result.documents[i].id, call.filter_dict)
               /\ TierPredicate(result.documents[i].id)

\* C21 for the filters whose keys are field paths: there the entries of the
\* filter are added to the tier predicate.
C21_PathFilterAnded ==
    (DOMAIN call.filter_dict \subseteq {"metadata.source"}) => C21_FilterAnded

C21_PathFilterWitness ==
    /\ Returned /\ StdCall /\ call.filter_dict = GithubFilter
    /\ \E i \in DOMAIN result.documents : TierOf(result.documents[i].id) = "conceptual"
    /\ \E r \in Range(store) : /\ Fact(r.id, call.query).conceptual
                                /\ ~FilterMatches(r.id, call.filter_dict)

\* The stored documents that match the keyword predicate of the query.
KeywordMatching == {r \in Range(store) : Fact(r.id, call.query).keyword}

\* The number of documents the conceptual and the full-text tier gathered.
EarlierGathered ==
    Cardinality({i \in DOMAIN events : /\ events[i].ev = "score"
                                       /\ events[i].tier \in {"conceptual", "fulltext"}})

\* C22: once the conceptual and the full-text tier gathered limit // 2 or
\* more documents, search_documents sends no fallback query and returns only
\* what these tiers gathered, cut to the limit, however many stored
\* documents match the keyword predicate; so it can return fewer than limit
\* documents although limit or more stored documents match (C22_Witness).
C22_FallbackSkipped ==
    (Returned /\ StdCall /\ call.limit > 0 /\ EarlierGathered >= call.limit \div 2)
        => /\ ~Issued("fallback")
           /\ Len(result.documents) = Min(call.limit, EarlierGathered)
           /\ \A i \in DOMAIN result.documents :
                  TierOf(result.documents[i].id) \in {"conceptual", "fulltext"}

C22_Witness ==
    /\ Returned /\ StdCall /\ call.limit > 1 /\ call.filter_dict = NoFilter
    /\ EarlierGathered >= call.limit \div 2
    /\ ~Issued("fallback")
    /\ Len(result.documents) < call.limit
    /\ Cardinality(KeywordMatching) >= call.limit

\* Every document the conceptual tier gathered is in the returned list.
ConceptualKept == Ids(conceptual_docs) \subseteq Ids(result.documents)

\* C23: for every limit > 0, every document gathered by the conceptual tier
\* of search_documents is in the list it returns: the cut to the limit drops
\* no conceptual-tier document.
C23_ConceptualNeverDropped ==
    (Returned /\ StdCall /\ call.limit > 0) => ConceptualKept

\* C23 for the limits whose conceptual budget limit // 3 is not 0.
C23_BudgetedNeverDropped ==
    (Returned /\ StdCall /\ call.limit \div 3 > 0) => ConceptualKept

C23_BudgetedWitness ==
    /\ Returned /\ StdCall /\ call.limit \div 3 > 0
    /\ conceptual_docs # <<>>
    /\ Issued("fallback")
    /\ Len(documents) > Len(conceptual_docs)

\* The call in flight came through one of the four tools.
ToolCall == call.entry \in {"tool", "semantic", "metadata", "all"}

\* C24: the tools search_documents, search_documents_semantic,
\* search_documents_by_metadata and get_all_documents hand their caller a
\* list whatever happens; when the service raised, the list is empty, the
\* very response of a call that found no document.
C24_ToolsReturnEmptyOnFailure ==
    (pc = "done" /\ ToolCall)
        => /\ response.kind = "list"
           /\ result.status = "raised"
                => /\ response.items = <<>>
                   /\ response = Reply(call.entry, <<>>)

C24_Witness ==
    /\ pc = "done" /\ call.entry = "all"
    /\ result.status = "raised" /\ result.error = "store"
    /\ store # <<>>
    /\ response = [kind |-> "list", items |-> <<>>]

====
